---- MODULE Spec2Model ----
(***************************************************************************)
(* Multi-RPC gas soundness checker (src/app.py): main's run over the       *)
(* configured endpoints, sample_base_fees' window walk, analyze_endpoint's *)
(* summary and group_by_chain's consensus, deviation and outlier flag.     *)
(*                                                                         *)
(* Number representation (exact fixed point, no float error):              *)
(*   - a block's base fee, as returned by the endpoint, is an integer      *)
(*     number of half milli-gwei (500000 wei); 0 is "zero or absent";      *)
(*   - an unrounded per-endpoint statistic is an integer number of quarter *)
(*     milli-gwei, so that the mean of two observations stays integral;    *)
(*   - a summary's baseFee*Gwei fields, rounded to 3 decimals, are integer *)
(*     numbers of milli-gwei;                                              *)
(*   - the unrounded group median is kept doubled (half milli-gwei);       *)
(*   - deviationPct, rounded to 2 decimals, is an integer number of        *)
(*     hundredths of a percent; tolerance_pct is an integer number of      *)
(*     thousandths of a percent.                                           *)
(* round(x, k) on an exact decimal tie goes up or down with the binary     *)
(* value of the float (round(1.0005, 3) = 1.0, round(2.0005, 3) = 2.001):  *)
(* the direction is a function of the value, chosen by the environment.    *)
(***************************************************************************)
EXTENDS Integers, Sequences, FiniteSets, TLC

\* ---- bounds of the model ------------------------------------------------
MaxRpcs == 2        \* endpoints on the command line (Spec)
MaxRunBlocks == 2   \* --blocks ranges over 0..MaxRunBlocks (Spec)
MaxBlocks == 3      \* --blocks ranges over 1..MaxBlocks (SpecSample)
MaxStep == 3        \* --step ranges over 0..MaxStep
MaxHead == 4        \* block height an endpoint reports
MaxFee == 4         \* base fee of a block, in half milli-gwei
MaxEps == 3         \* endpoint summaries handed to group_by_chain (SpecGroup)
MaxMedian == 3      \* baseFeeMedianGwei of such a summary, in milli-gwei

ChainIds == {1, 10}                       \* two of NETWORKS' chain ids
TolVals == {-1000, 0, 33333, 50000}       \* --tolerance-pct, thousandths of a percent

VARIABLES
    pc,            \* position of main
    blocks,        \* args.blocks
    step,          \* args.step
    tolerance_pct, \* args.tolerance_pct
    rpc_list,      \* main's rpc_list
    i,             \* index in rpc_list of the endpoint being analyzed
    chain_id,      \* analyze_endpoint's chain_id
    head,          \* sample_base_fees' head
    start,         \* sample_base_fees' start
    todo,          \* block numbers range() has still to yield
    base_fees,     \* sample_base_fees' base_fees
    sampled,       \* sample_base_fees' sampled
    visited,       \* block numbers get_block was called for, in order
    fetched,       \* what each of these calls gave: -1 raised, else bf_wei
    endpoints,     \* main's endpoints
    groups,        \* group_by_chain's result, in dict insertion order
    exitCode,      \* process exit status, -1 while running
    contacted      \* TRUE once any endpoint call was made

vars == <<pc, blocks, step, tolerance_pct, rpc_list, i, chain_id, head, start,
          todo, base_fees, sampled, visited, fetched, endpoints, groups, exitCode,
          contacted>>

\* ---- arithmetic helpers -------------------------------------------------
Abs(x) == IF x < 0 THEN -x ELSE x

Max(a, b) == IF a >= b THEN a ELSE b

\* range(first, stop, -st) for st > 0: first, first-st, ... while > stop
RECURSIVE RangeDown(_, _, _)
RangeDown(first, stop, st) ==
    IF first > stop THEN <<first>> \o RangeDown(first - st, stop, st) ELSE <<>>

\* line 62: start = max(0, head - blocks + 1)
StartOf(h, b) == Max(0, h - b + 1)

\* the range with start as its exclusive stop: the lower bound is never visited
SampleRangeExclusive(h, b, st) == RangeDown(h, StartOf(h, b), st)

\* line 71: range(head, start - 1, -step)
SampleRange(h, b, st) == RangeDown(h, StartOf(h, b) - 1, st)

\* sorted(data), ascending
RECURSIVE Sorted(_)
Sorted(s) ==
    IF s = <<>> THEN <<>>
    ELSE LET m == CHOOSE k \in 1..Len(s) : \A j \in 1..Len(s) : s[k] <= s[j]
             rest == [j \in 1..(Len(s) - 1) |-> IF j < m THEN s[j] ELSE s[j + 1]]
         IN <<s[m]>> \o Sorted(rest)

\* statistics.median(data), doubled: the middle value, or the mean of the two
\* middle values, of the sorted data
Median2(data) ==
    LET d == Sorted(data)
        n == Len(d)
    IN IF n % 2 = 1 THEN 2 * d[(n \div 2) + 1]
       ELSE d[n \div 2] + d[(n \div 2) + 1]

\* min(data), max(data)
MinOf(data) == Sorted(data)[1]

MaxOf(data) == Sorted(data)[Len(data)]

\* round(num/den, k) as an integer number of 10^-k units, num >= 0, den > 0:
\* nearest; an exact tie goes up iff up
RoundDiv(num, den, up) ==
    LET q == num \div den
        r == num % den
    IN IF 2 * r > den \/ (2 * r = den /\ up) THEN q + 1 ELSE q

\* ---- analyze_endpoint: the summary record --------------------------------
\* round(x, 3) of an unrounded statistic q (quarter milli-gwei), in milli-gwei;
\* up is the set of tie values that the float rounds up
Round3(q, up) == RoundDiv(q, 4, q \in up)

\* med_bf, min_bf, max_bf of lines 110-115, unrounded (quarter milli-gwei)
MedBf(fees) == IF fees # <<>> THEN Median2(fees) ELSE 0

\* min_bf taken with max
MinBfSwapped(fees) == IF fees # <<>> THEN 2 * MaxOf(fees) ELSE 0

MinBf(fees) == IF fees # <<>> THEN 2 * MinOf(fees) ELSE 0

MaxBf(fees) == IF fees # <<>> THEN 2 * MaxOf(fees) ELSE 0

\* the values among the three statistics that lie exactly between two
\* thousandths
Ties3(fees) == {q \in {MedBf(fees), MinBf(fees), MaxBf(fees)} : q % 4 = 2}

\* the dict analyze_endpoint returns (network, clientVersion and
\* headBaseFeeGwei, which no later computation reads, are left out)
Summary(rpc, cid, hd, st, span, stp, fees, cnt, up) ==
    [rpcUrl |-> rpc, chainId |-> cid, head |-> hd, start |-> st,
     requestedSpan |-> span, step |-> stp, sampledBlocks |-> cnt,
     baseFeeMedianGwei |-> Round3(MedBf(fees), up),
     baseFeeMinGwei |-> Round3(MinBf(fees), up),
     baseFeeMaxGwei |-> Round3(MaxBf(fees), up)]

\* ---- group_by_chain ------------------------------------------------------
\* the iteration with the member put in front of the group's list
AddToGroupFront(gs, ep) ==
    IF \E k \in 1..Len(gs) : gs[k].chainId = ep.chainId
    THEN [k \in 1..Len(gs) |->
            IF gs[k].chainId = ep.chainId
            THEN [gs[k] EXCEPT !.endpoints = <<ep>> \o @]
            ELSE gs[k]]
    ELSE Append(gs, [chainId |-> ep.chainId, endpoints |-> <<ep>>,
                     globalMedianBaseFeeGwei |-> 0])

\* one iteration of the first loop: setdefault(cid, ...) then append
AddToGroup(gs, ep) ==
    IF \E k \in 1..Len(gs) : gs[k].chainId = ep.chainId
    THEN [k \in 1..Len(gs) |->
            IF gs[k].chainId = ep.chainId
            THEN [gs[k] EXCEPT !.endpoints = Append(@, ep)]
            ELSE gs[k]]
    ELSE Append(gs, [chainId |-> ep.chainId, endpoints |-> <<ep>>,
                     globalMedianBaseFeeGwei |-> 0])

\* the first loop over endpoints: the groups in dict insertion order
RECURSIVE Partition(_)
Partition(eps) ==
    IF eps = <<>> THEN <<>>
    ELSE AddToGroup(Partition(SubSeq(eps, 1, Len(eps) - 1)), eps[Len(eps)])

\* med_values without the filter: zero medians take part in the consensus
MedValuesUnfiltered(eps) == [k \in 1..Len(eps) |-> eps[k].baseFeeMedianGwei]

\* med_values of a group: the members' medians that are > 0, in member order
RECURSIVE MedValues(_)
MedValues(eps) ==
    IF eps = <<>> THEN <<>>
    ELSE IF Head(eps).baseFeeMedianGwei > 0
         THEN <<Head(eps).baseFeeMedianGwei>> \o MedValues(Tail(eps))
         ELSE MedValues(Tail(eps))

\* g_med of a group, doubled (half milli-gwei); 0 when med_values is empty
GMed2(eps) == IF MedValues(eps) # <<>> THEN Median2(MedValues(eps)) ELSE 0

\* round(g_med, 3), in milli-gwei; upG is the set of tie values rounded up
RoundG(g2, upG) == RoundDiv(g2, 2, g2 \in upG)

\* dev of lines 150-153 as a fraction of a percent: <<numerator, denominator>>
\* with denominator > 0; pct_diff(a, b) = (a - b) / b * 100 with a = m and
\* b = g2 / 2
pct_diff(m, g2) == IF g2 = 0 THEN <<0, 1>> ELSE <<(2 * m - g2) * 100, g2>>

Dev(m, g2) == IF g2 > 0 /\ m > 0 THEN pct_diff(m, g2) ELSE <<0, 1>>

\* round(dev, 2), in hundredths of a percent
RoundDev(dev, upD) ==
    IF dev[1] >= 0 THEN RoundDiv(dev[1] * 100, dev[2], upD)
    ELSE -RoundDiv((-dev[1]) * 100, dev[2], upD)

\* the comparison made strict
IsOutlierStrict(dev, tol) == Abs(dev[1]) * 1000 > tol * dev[2]

\* abs(dev) >= tolerance_pct, tol in thousandths of a percent
IsOutlier(dev, tol) == Abs(dev[1]) * 1000 >= tol * dev[2]

\* the two fields the second loop writes into a member dict
Annotate(ep, g2, tol, upD) ==
    [rpcUrl |-> ep.rpcUrl, chainId |-> ep.chainId, head |-> ep.head,
     start |-> ep.start, requestedSpan |-> ep.requestedSpan, step |-> ep.step,
     sampledBlocks |-> ep.sampledBlocks,
     baseFeeMedianGwei |-> ep.baseFeeMedianGwei,
     baseFeeMinGwei |-> ep.baseFeeMinGwei,
     baseFeeMaxGwei |-> ep.baseFeeMaxGwei,
     deviationPct |-> RoundDev(Dev(ep.baseFeeMedianGwei, g2), upD),
     isOutlier |-> IsOutlier(Dev(ep.baseFeeMedianGwei, g2), tol)]

\* the second loop applied to one group
AnnotateGroup(g, tol, upG, upD) ==
    [chainId |-> g.chainId,
     globalMedianBaseFeeGwei |-> RoundG(GMed2(g.endpoints), upG),
     endpoints |-> [k \in 1..Len(g.endpoints) |->
                      Annotate(g.endpoints[k], GMed2(g.endpoints), tol, upD)]]

\* the dict group_by_chain returns, as the sequence of its values in order
group_by_chain(eps, tol, upG, upD) ==
    LET gs == Partition(eps)
    IN [k \in 1..Len(gs) |-> AnnotateGroup(gs[k], tol, upG, upD)]

\* the unrounded group medians that lie exactly between two thousandths
TiesG(eps) ==
    LET gs == Partition(eps)
    IN {g2 \in {GMed2(gs[k].endpoints) : k \in 1..Len(gs)} : g2 % 2 = 1}

\* the member dicts are shared with main's endpoints list: after the call the
\* list holds the annotated dicts, in its own order
AnnotatedList(eps, tol, upD) ==
    LET gs == Partition(eps)
        grpOf(ep) == CHOOSE k \in 1..Len(gs) : gs[k].chainId = ep.chainId
    IN [k \in 1..Len(eps) |->
          Annotate(eps[k], GMed2(gs[grpOf(eps[k])].endpoints), tol, upD)]

\* ---- main ----------------------------------------------------------------
\* the state after parse_args and the building of rpc_list (lines 215-227)
Init ==
    /\ pc = "parse"
    /\ blocks \in 0..MaxRunBlocks
    /\ step \in 0..MaxStep
    /\ tolerance_pct \in TolVals
    /\ rpc_list \in {[k \in 1..n |-> k] : n \in 0..MaxRpcs}
    /\ i = 0
    /\ chain_id = 0
    /\ head = 0
    /\ start = 0
    /\ todo = <<>>
    /\ base_fees = <<>>
    /\ sampled = 0
    /\ visited = <<>>
    /\ fetched = <<>>
    /\ endpoints = <<>>
    /\ groups = <<>>
    /\ exitCode = -1
    /\ contacted = FALSE

\* sys.exit(code)
Exit(code) ==
    /\ pc' = "exit"
    /\ exitCode' = code

\* the for loop of line 248 moves to the next rpc, or ends
NextRpc ==
    /\ i' = i + 1
    /\ pc' = IF i + 1 > Len(rpc_list) THEN "collect" ELSE "connect"
    /\ chain_id' = 0
    /\ head' = 0
    /\ start' = 0
    /\ todo' = <<>>
    /\ base_fees' = <<>>
    /\ sampled' = 0
    /\ visited' = <<>>
    /\ fetched' = <<>>
    /\ UNCHANGED exitCode

\* lines 217-234: the checks main makes before the loop
CheckConfig ==
    /\ pc = "parse"
    /\ IF blocks <= 0 \/ step <= 0
       THEN Exit(1) /\ UNCHANGED i
       ELSE IF rpc_list = <<>>
            THEN Exit(1) /\ UNCHANGED i
            ELSE pc' = "connect" /\ i' = 1 /\ UNCHANGED exitCode
    /\ UNCHANGED <<blocks, step, tolerance_pct, rpc_list, chain_id, head, start,
                   todo, base_fees, sampled, visited, fetched, endpoints, groups, contacted>>

\* connect (lines 34-51), called at line 88: is_connected() false exits the
\* process with status 1 (main re-raises SystemExit, lines 255-256); a failure
\* to read the chain info is only printed
Connect ==
    /\ pc = "connect"
    /\ contacted' = TRUE
    /\ \E is_connected \in BOOLEAN :
         IF is_connected
         THEN pc' = "chain_id" /\ UNCHANGED exitCode
         ELSE Exit(1)
    /\ UNCHANGED <<blocks, step, tolerance_pct, rpc_list, i, chain_id, head,
                   start, todo, base_fees, sampled, visited, fetched, endpoints, groups>>

\* line 89: int(w3.eth.chain_id); 0 stands for the call raising, which main
\* catches at line 257 and goes on with the next rpc
ReadChainId ==
    /\ pc = "chain_id"
    /\ \E cid \in ChainIds \cup {0} :
         IF cid = 0
         THEN NextRpc
         ELSE /\ chain_id' = cid
              /\ pc' = "head"
              /\ UNCHANGED <<i, head, start, todo, base_fees, sampled, visited,
                             fetched, exitCode>>
    /\ UNCHANGED <<blocks, step, tolerance_pct, rpc_list, endpoints, groups,
                   contacted>>

\* lines 61-64: head, start and the range of line 71; -1 stands for
\* w3.eth.block_number raising, caught by main at line 257
ReadHead ==
    /\ pc = "head"
    /\ \E h \in -1..MaxHead :
         IF h = -1
         THEN NextRpc
         ELSE /\ head' = h
              /\ start' = StartOf(h, blocks)
              /\ todo' = SampleRange(h, blocks, step)
              /\ base_fees' = <<>>
              /\ sampled' = 0
              /\ visited' = <<>>
              /\ fetched' = <<>>
              /\ pc' = "sample"
              /\ UNCHANGED <<i, chain_id, exitCode>>
    /\ UNCHANGED <<blocks, step, tolerance_pct, rpc_list, endpoints, groups,
                   contacted>>

\* the iteration with break in place of continue: an omitted block ends the loop
FetchBlockBreak ==
    /\ pc = "sample"
    /\ todo # <<>>
    /\ visited' = Append(visited, Head(todo))
    /\ \E bf \in -1..MaxFee :
         /\ fetched' = Append(fetched, bf)
         /\ IF bf <= 0
            THEN todo' = <<>> /\ UNCHANGED <<base_fees, sampled>>
            ELSE /\ todo' = Tail(todo)
                 /\ base_fees' = Append(base_fees, bf)
                 /\ sampled' = sampled + 1
    /\ UNCHANGED <<pc, blocks, step, tolerance_pct, rpc_list, i, chain_id, head,
                   start, endpoints, groups, exitCode, contacted>>

\* lines 71-82, one iteration: -1 stands for get_block raising, 0 for a block
\* whose baseFeePerGas is absent or zero
FetchBlock ==
    /\ pc = "sample"
    /\ todo # <<>>
    /\ visited' = Append(visited, Head(todo))
    /\ todo' = Tail(todo)
    /\ \E bf \in -1..MaxFee :
         /\ fetched' = Append(fetched, bf)
         /\ IF bf <= 0
            THEN UNCHANGED <<base_fees, sampled>>
            ELSE /\ base_fees' = Append(base_fees, bf)
                 /\ sampled' = sampled + 1
    /\ UNCHANGED <<pc, blocks, step, tolerance_pct, rpc_list, i, chain_id, head,
                   start, endpoints, groups, exitCode, contacted>>

\* lines 84-131 and 251: the loop is over, the summary is built and appended
\* (the fetch of the head block at line 103 changes nothing kept here)
Summarize ==
    /\ pc = "sample"
    /\ todo = <<>>
    /\ \E up \in SUBSET Ties3(base_fees) :
         endpoints' = Append(endpoints,
                             Summary(rpc_list[i], chain_id, head, start, blocks,
                                     step, base_fees, sampled, up))
    /\ NextRpc
    /\ UNCHANGED <<blocks, step, tolerance_pct, rpc_list, groups, contacted>>

\* lines 260-262
NoEndpoints ==
    /\ pc = "collect"
    /\ endpoints = <<>>
    /\ Exit(2)
    /\ UNCHANGED <<blocks, step, tolerance_pct, rpc_list, i, chain_id, head,
                   start, todo, base_fees, sampled, visited, fetched, endpoints, groups,
                   contacted>>

\* line 264: groups = group_by_chain(endpoints, args.tolerance_pct)
GroupByChain ==
    /\ pc = "collect"
    /\ endpoints # <<>>
    /\ \E upG \in SUBSET TiesG(endpoints), upD \in BOOLEAN :
         /\ groups' = group_by_chain(endpoints, tolerance_pct, upG, upD)
         /\ endpoints' = AnnotatedList(endpoints, tolerance_pct, upD)
    /\ pc' = "report"
    /\ UNCHANGED <<blocks, step, tolerance_pct, rpc_list, i, chain_id, head,
                   start, todo, base_fees, sampled, visited, fetched, exitCode, contacted>>

\* lines 265-327: the report is printed and main returns
Report ==
    /\ pc = "report"
    /\ Exit(0)
    /\ UNCHANGED <<blocks, step, tolerance_pct, rpc_list, i, chain_id, head,
                   start, todo, base_fees, sampled, visited, fetched, endpoints, groups,
                   contacted>>

Next ==
    \/ CheckConfig
    \/ Connect
    \/ ReadChainId
    \/ ReadHead
    \/ FetchBlock
    \/ Summarize
    \/ NoEndpoints
    \/ GroupByChain
    \/ Report

Spec == Init /\ [][Next]_vars

\* ---- one endpoint ---------------------------------------------------------
\* a run over a single endpoint with a valid configuration and the default
\* kind of tolerance, for the claims about sample_base_fees and
\* analyze_endpoint
InitSample ==
    /\ pc = "parse"
    /\ blocks \in 1..MaxBlocks
    /\ step \in 1..MaxStep
    /\ tolerance_pct = 50000
    /\ rpc_list = <<1>>
    /\ i = 0
    /\ chain_id = 0
    /\ head = 0
    /\ start = 0
    /\ todo = <<>>
    /\ base_fees = <<>>
    /\ sampled = 0
    /\ visited = <<>>
    /\ fetched = <<>>
    /\ endpoints = <<>>
    /\ groups = <<>>
    /\ exitCode = -1
    /\ contacted = FALSE

SpecSample == InitSample /\ [][Next]_vars

\* ---- group_by_chain on its own ---------------------------------------------
\* a summary of an endpoint that sampled one block, at height 0, of median m
OneBlockSummary(rpc, cid, m) ==
    Summary(rpc, cid, 0, 0, 1, 1, IF m = 0 THEN <<>> ELSE <<2 * m>>,
            IF m = 0 THEN 0 ELSE 1, {})

\* main at line 264, with every list of up to MaxEps such summaries
InitGroup ==
    /\ pc = "collect"
    /\ blocks = 1
    /\ step = 1
    /\ tolerance_pct \in TolVals
    /\ \E n \in 1..MaxEps :
         /\ rpc_list = [k \in 1..n |-> k]
         /\ i = n + 1
         /\ \E cids \in [1..n -> ChainIds], meds \in [1..n -> 0..MaxMedian] :
              endpoints = [k \in 1..n |-> OneBlockSummary(k, cids[k], meds[k])]
    /\ chain_id = 0
    /\ head = 0
    /\ start = 0
    /\ todo = <<>>
    /\ base_fees = <<>>
    /\ sampled = 0
    /\ visited = <<>>
    /\ fetched = <<>>
    /\ groups = <<>>
    /\ exitCode = -1
    /\ contacted = TRUE

NextGroup ==
    \/ GroupByChain
    \/ Report

SpecGroup == InitGroup /\ [][NextGroup]_vars

\* ---- claims about sample_base_fees and analyze_endpoint (SpecSample) -------
\* the block numbers head - k*step that are >= max(0, head - blocks + 1)
WindowSet == {n \in 0..head : n >= Max(0, head - blocks + 1)
                               /\ (head - n) % step = 0}

StrictlyDecreasing(s) == \A k \in 1..(Len(s) - 1) : s[k] > s[k + 1]

SeqRange(s) == {s[k] : k \in 1..Len(s)}

\* C5: sample_base_fees fetches exactly the block numbers head - k*step that
\* are >= max(0, head - blocks + 1), in strictly decreasing order and each
\* once, and no other; start is max(0, head - blocks + 1); for blocks = 10,
\* step = 5, head = 100 the visited blocks are 100 and 95.
C5_VisitsExactlyTheWindow ==
    /\ pc = "sample" =>
         /\ start = Max(0, head - blocks + 1)
         /\ StrictlyDecreasing(visited)
         /\ SeqRange(visited) \subseteq WindowSet
         /\ \A n \in WindowSet \ SeqRange(visited) :
              \A k \in 1..Len(visited) : n < visited[k]
         /\ todo = <<>> => SeqRange(visited) = WindowSet
    /\ SampleRange(100, 10, 5) = <<100, 95>>
    /\ StartOf(100, 10) = 91

\* the loop is over after two fetches of a window whose lower bound is not 0
C5_Witness ==
    /\ pc = "sample"
    /\ todo = <<>>
    /\ visited = <<4, 2>>
    /\ start = 2
    /\ step = 2

IsObservation(bf) == bf > 0

\* C6: a block whose fetch fails or whose base fee is zero or absent adds no
\* observation and does not stop the loop: the loop ends only when the whole
\* window was visited, and sampled is the number of observations, which are the
\* nonzero fees of the blocks fetched successfully, in order.
C6_OmissionsNeverStopSampling ==
    pc = "sample" =>
      /\ Len(fetched) = Len(visited)
      /\ base_fees = SelectSeq(fetched, IsObservation)
      /\ sampled = Len(base_fees)
      /\ sampled = Cardinality({k \in 1..Len(fetched) : fetched[k] > 0})
      /\ todo = <<>> => Len(visited) = Cardinality(WindowSet)

\* a failed fetch, then a block without base fee, then an observation
C6_Witness ==
    /\ pc = "sample"
    /\ todo = <<>>
    /\ Len(fetched) = 3
    /\ fetched[1] = -1
    /\ fetched[2] = 0
    /\ fetched[3] > 0
    /\ sampled = 1

\* C8: every summary analyze_endpoint returns has min <= median <= max when
\* sampledBlocks > 0 and median = min = max = 0 when sampledBlocks = 0.
C8_MinMedianMaxOrdered ==
    \A k \in 1..Len(endpoints) :
      LET ep == endpoints[k]
      IN /\ ep.sampledBlocks > 0 =>
              /\ ep.baseFeeMinGwei <= ep.baseFeeMedianGwei
              /\ ep.baseFeeMedianGwei <= ep.baseFeeMaxGwei
         /\ ep.sampledBlocks = 0 =>
              /\ ep.baseFeeMedianGwei = 0
              /\ ep.baseFeeMinGwei = 0
              /\ ep.baseFeeMaxGwei = 0

\* a summary of three observations whose minimum, median and maximum differ
C8_Witness ==
    \E k \in 1..Len(endpoints) :
      /\ endpoints[k].sampledBlocks = 3
      /\ endpoints[k].baseFeeMinGwei < endpoints[k].baseFeeMedianGwei
      /\ endpoints[k].baseFeeMedianGwei < endpoints[k].baseFeeMaxGwei

\* ---- claims about group_by_chain (SpecGroup) --------------------------------
Grouped == pc \in {"report", "exit"} /\ groups # <<>>

\* the indices of the members of group g whose median is not zero
Signal(g) == {k \in 1..Len(g.endpoints) : g.endpoints[k].baseFeeMedianGwei > 0}

\* the r-th smallest median among the members of Signal(g)
Ranked(g, r) ==
    CHOOSE v \in {g.endpoints[k].baseFeeMedianGwei : k \in Signal(g)} :
      /\ Cardinality({k \in Signal(g) : g.endpoints[k].baseFeeMedianGwei <= v}) >= r
      /\ Cardinality({k \in Signal(g) : g.endpoints[k].baseFeeMedianGwei < v}) < r

\* twice the median of the nonzero member medians, 0 when there is none
Consensus2(g) ==
    LET n == Cardinality(Signal(g))
    IN IF n = 0 THEN 0
       ELSE IF n % 2 = 1 THEN 2 * Ranked(g, (n + 1) \div 2)
       ELSE Ranked(g, n \div 2) + Ranked(g, (n \div 2) + 1)

\* C2 as stated: isOutlier iff |reported deviationPct| >= tolerancePct
C2_AsClaimed ==
    (Grouped /\ tolerance_pct >= 0) =>
      \A j \in 1..Len(groups) : \A k \in 1..Len(groups[j].endpoints) :
        LET ep == groups[j].endpoints[k]
        IN ep.isOutlier <=> (Abs(ep.deviationPct) * 10 >= tolerance_pct)

\* C2, amended: isOutlier iff the absolute value of the unrounded deviation,
\* (median - consensus) / consensus * 100 against the unrounded consensus when
\* both are positive and 0 otherwise, is >= tolerancePct; an unrounded
\* deviation exactly equal to the tolerance is an outlier.
C2_OutlierIffUnroundedDeviation ==
    Grouped =>
      \A j \in 1..Len(groups) : \A k \in 1..Len(groups[j].endpoints) :
        LET ep == groups[j].endpoints[k]
            m == ep.baseFeeMedianGwei
            g2 == Consensus2(groups[j])
        IN IF m > 0 /\ g2 > 0
           THEN ep.isOutlier <=> (Abs(2 * m - g2) * 100000 >= tolerance_pct * g2)
           ELSE ep.isOutlier <=> (0 >= tolerance_pct)

\* a member whose unrounded deviation is exactly the tolerance of 50 percent
C2_Witness ==
    /\ Grouped
    /\ tolerance_pct = 50000
    /\ \E j \in 1..Len(groups) : \E k \in 1..Len(groups[j].endpoints) :
         LET ep == groups[j].endpoints[k]
         IN /\ ep.baseFeeMedianGwei > 0
            /\ Abs(2 * ep.baseFeeMedianGwei - Consensus2(groups[j])) * 100000
                 = tolerance_pct * Consensus2(groups[j])
            /\ ep.isOutlier

\* C3 as stated: for every tolerancePct >= 0, a summary whose median is 0 or
\* whose group's consensus is 0 has deviationPct = 0 and isOutlier = false
C3_AsClaimed ==
    (Grouped /\ tolerance_pct >= 0) =>
      \A j \in 1..Len(groups) : \A k \in 1..Len(groups[j].endpoints) :
        LET ep == groups[j].endpoints[k]
        IN (ep.baseFeeMedianGwei = 0 \/ groups[j].globalMedianBaseFeeGwei = 0) =>
             (ep.deviationPct = 0 /\ ep.isOutlier = FALSE)

\* C4 as stated: globalMedianBaseFeeGwei equals the median of the nonzero
\* member medians
C4_AsClaimed ==
    (Grouped /\ tolerance_pct >= 0) =>
      \A j \in 1..Len(groups) :
        2 * groups[j].globalMedianBaseFeeGwei = Consensus2(groups[j])

\* C4, amended: globalMedianBaseFeeGwei is the median of the members' nonzero
\* medians rounded to 3 decimals: equal to it when it has no fourth decimal,
\* one of the two neighbouring thousandths otherwise, and 0 when no member has
\* a nonzero median; members of median 0 do not take part.
C4_ConsensusIsRoundedMedian ==
    Grouped =>
      \A j \in 1..Len(groups) :
        LET g2 == Consensus2(groups[j])
            G == groups[j].globalMedianBaseFeeGwei
        IN IF g2 % 2 = 0 THEN 2 * G = g2
           ELSE 2 * G \in {g2 - 1, g2 + 1}

\* a group with a member of median 0 and two members whose medians differ by
\* one thousandth
C4_Witness ==
    /\ Grouped
    /\ \E j \in 1..Len(groups) :
         /\ Len(groups[j].endpoints) = 3
         /\ Cardinality(Signal(groups[j])) = 2
         /\ Consensus2(groups[j]) = 3
         /\ groups[j].globalMedianBaseFeeGwei = 2

\* C9: group_by_chain partitions its input: a summary is in the group of its
\* own chainId and in no other, none is dropped or duplicated, the groups are
\* in the order their chain id was first seen and the members of a group in the
\* order of the input.
C9_GroupsPartitionInOrder ==
    Grouped =>
      /\ \A j1, j2 \in 1..Len(groups) :
           groups[j1].chainId = groups[j2].chainId => j1 = j2
      /\ \A k \in 1..Len(endpoints) :
           \E j \in 1..Len(groups) : groups[j].chainId = endpoints[k].chainId
      /\ \A j \in 1..Len(groups) :
           LET OfChain(ep) == ep.chainId = groups[j].chainId
           IN /\ groups[j].endpoints = SelectSeq(endpoints, OfChain)
              /\ groups[j].endpoints # <<>>
      /\ \A j1, j2 \in 1..Len(groups) :
           j1 < j2 =>
             \E k1 \in 1..Len(endpoints) :
               /\ endpoints[k1].chainId = groups[j1].chainId
               /\ \A k2 \in 1..k1 : endpoints[k2].chainId # groups[j2].chainId

\* chain 10 seen first, then chain 1, then chain 10 again
C9_Witness ==
    /\ Grouped
    /\ Len(groups) = 2
    /\ groups[1].chainId = 10
    /\ groups[2].chainId = 1
    /\ Len(groups[1].endpoints) = 2
    /\ groups[1].endpoints[1].rpcUrl = 1
    /\ groups[1].endpoints[2].rpcUrl = 3

\* ---- claims about main (Spec) ------------------------------------------------
\* the configuration passes the checks of lines 217-234
ConfigAccepted == blocks > 0 /\ step > 0 /\ rpc_list # <<>>

\* C1 as stated: an endpoint that cannot be reached or identified is only left
\* out and main goes on with the remaining ones, so a run with an accepted
\* configuration ends in a failure only after every endpoint of the list was
\* tried and none gave a summary
C1_AsClaimed ==
    (pc = "exit" /\ ConfigAccepted /\ tolerance_pct >= 0 /\ exitCode # 0) =>
      (endpoints = <<>> /\ i >= Len(rpc_list))

\* C7 as stated: with blocks <= 0, step <= 0 or a negative tolerancePct no
\* endpoint is ever contacted
C7_AsClaimed ==
    (blocks <= 0 \/ step <= 0 \/ tolerance_pct < 0) => ~contacted

\* C10 as stated: a run with a valid configuration in which no endpoint gave a
\* summary does not end in the outcome of a configuration error, exit status 1
C10_AsClaimed ==
    (pc = "exit" /\ ConfigAccepted /\ tolerance_pct >= 0 /\ endpoints = <<>>) =>
      exitCode # 1

====
